---- MODULE Spec2Model ----
(***************************************************************************)
(* SystemPromptRouter (src/system-prompt-router/prompt_router.py).         *)
(*                                                                         *)
(* Two router instances live in one process together with the module-level *)
(* dict PROMPT_LIBRARY that get_prompt_library() hands out by reference.   *)
(* A Python dict is modelled as the sequence of its items in insertion     *)
(* order; an attribute holding a dict holds a reference into the heap.     *)
(* Indices are 1-based here and 0-based in the source.                     *)
(* The embedder is a fixed function of the text (encode). Under Spec it     *)
(* answers every call. Under SpecGen one router also serves                *)
(* generate_response, where the embedder and the chat completion may fail. *)
(* Under SpecCli the process is one run of cli.py main().                  *)
(***************************************************************************)
EXTENDS Integers, Sequences, FiniteSets, TLC

VARIABLES heap, prompt_library, prompt_names, prompt_embeddings,
          argsort_ties, last, cli

vars == <<heap, prompt_library, prompt_names, prompt_embeddings,
          argsort_ties, last, cli>>

(* ------------------------------- bounds -------------------------------- *)

\* largest top_k a caller passes
MaxTopK == 3

\* longest sequence of add_prompt and load_prompt_library calls that two
\* routers are both taken through
MaxScript == 4

(* ------------------------------- inputs -------------------------------- *)

Routers == {"r1", "r2"}

Names == {"a", "b"}

\* texts handed to the embedder: descriptions and queries
Texts == {"t1", "t2"}

SystemPrompts == {"s1", "s2"}

TopKs == (-1)..MaxTopK

Item(n, d, s) == [name |-> n, description |-> d, system_prompt |-> s]

\* (name, description, system_prompt) triples a caller passes to add_prompt
Items == {Item("a", "t1", "s1"), Item("a", "t2", "s2"), Item("b", "t1", "s1")}

\* the module-level library of prompt_library.py, scaled down to one entry
PROMPT_LIBRARY == << Item("a", "t1", "s1") >>

\* dict literals a caller builds and passes to load_prompt_library
Libraries ==
  { <<>>,
    << Item("a", "t1", "s1") >>,
    << Item("b", "t1", "s1"), Item("a", "t2", "s2") >> }

(* ---------------------------- Python helpers --------------------------- *)

None == <<>>

Some(v) == <<v>>

DictKeys(d) == [i \in 1..Len(d) |-> d[i].name]

DictHas(d, n) == \E i \in 1..Len(d) : d[i].name = n

\* the value of the first key, whatever the name asked for
DictGetFirst(d, n) == d[1]

DictGet(d, n) == d[CHOOSE i \in 1..Len(d) : d[i].name = n]

\* d.setdefault(n, v) in place of d[n] = v: an existing key keeps its value
DictSetKeepsOld(d, n, v) == IF DictHas(d, n) THEN d ELSE Append(d, v)

\* d[n] = v : an existing key keeps its position, a new key goes last
DictSet(d, n, v) ==
  IF DictHas(d, n)
    THEN [i \in 1..Len(d) |-> IF d[i].name = n THEN v ELSE d[i]]
    ELSE Append(d, v)

\* seq[:k]
SliceTo(seq, k) ==
  LET n == Len(seq)
      m == IF k >= 0 THEN (IF k < n THEN k ELSE n)
                     ELSE (IF n + k > 0 THEN n + k ELSE 0)
  IN  SubSeq(seq, 1, m)

\* the [::-1] forgotten
ReversedForgotten(seq) == seq

\* seq[::-1]
Reversed(seq) == [i \in 1..Len(seq) |-> seq[Len(seq) + 1 - i]]

(* ------------------------------ embedder ------------------------------- *)

\* SentenceTransformer.encode on one text: a fixed vector per text
encode(t) == IF t = "t1" THEN <<1, 0>> ELSE <<-1, 1>>

\* each product divided by the squared length of its row
dot_scaled(rows, q) == [i \in 1..Len(rows) |-> (rows[i][1] * q[1] + rows[i][2] * q[2]) \div (rows[i][1] * rows[i][1] + rows[i][2] * rows[i][2])]

\* np.dot(prompt_embeddings, query_embedding.T).flatten()
dot(rows, q) == [i \in 1..Len(rows) |-> rows[i][1] * q[1] + rows[i][2] * q[2]]

\* np.argsort(similarities): ascending; the default kind is not stable, so
\* the order among equal keys is fixed by the build (argsort_ties)
argsort(sim, ties) ==
  LET Before(i, j) ==
        \/ sim[i] < sim[j]
        \/ /\ sim[i] = sim[j]
           /\ IF ties = "low_index_first" THEN i < j ELSE i > j
      Pos(i) == 1 + Cardinality({j \in 1..Len(sim) : Before(j, i)})
  IN  [p \in 1..Len(sim) |-> CHOOSE i \in 1..Len(sim) : Pos(i) = p]

(* ------------------------------- router -------------------------------- *)

\* the dict object router r holds in self.prompt_library
Library(r) == heap[prompt_library[r]]

\* private dict object of router r: the {} of __init__, or a caller's
\* literal that only the router keeps
OwnObj(r) == IF r = "r1" THEN "own1" ELSE "own2"

NoEmbeddings == [is_none |-> TRUE, rows |-> <<>>]

\* self.prompt_names = [] forgotten: the names pile up over recomputations
compute_prompt_embeddings_no_reset(lib, names, emb) ==
  IF lib = <<>>
    THEN [names |-> names, emb |-> emb]
    ELSE [names |-> names \o DictKeys(lib),
          emb   |-> [is_none |-> FALSE,
                     rows |-> [i \in 1..Len(lib) |-> encode(lib[i].description)]]]

\* _compute_prompt_embeddings on library lib
compute_prompt_embeddings(lib, names, emb) ==
  IF lib = <<>>
    THEN [names |-> names, emb |-> emb]
    ELSE [names |-> DictKeys(lib),
          emb   |-> [is_none |-> FALSE,
                     rows |-> [i \in 1..Len(lib) |-> encode(lib[i].description)]]]

\* encode called in the loop, on one description at a time
embedder_calls_per_entry(lib) ==
  [i \in 1..Len(lib) |-> <<lib[i].description>>]

\* the calls of self.embedding_model.encode that _compute_prompt_embeddings
\* makes on library lib, each call given as its list of texts
embedder_calls(lib) ==
  IF lib = <<>> THEN <<>>
                ELSE << [i \in 1..Len(lib) |-> lib[i].description] >>

\* _compute_prompt_embeddings with an embedder whose encode may raise:
\* prompt_names is rebuilt before encode is called
compute_prompt_embeddings_call(lib, names, emb, encode_ok) ==
  IF lib = <<>> THEN [names |-> names, emb |-> emb, outcome |-> "ok"]
  ELSE IF encode_ok
    THEN [names |-> DictKeys(lib),
          emb   |-> compute_prompt_embeddings(lib, names, emb).emb,
          outcome |-> "ok"]
    ELSE [names |-> DictKeys(lib), emb |-> emb, outcome |-> "EmbedderError"]

\* body of the result loop of find_best_prompt, given top_indices
FirstBad(r, idxs) ==
  LET bad == {p \in 1..Len(idxs) :
                \/ idxs[p] > Len(prompt_names[r])
                \/ ~DictHas(Library(r), prompt_names[r][idxs[p]])}
  IN  IF bad = {} THEN 0 ELSE CHOOSE p \in bad : \A o \in bad : p <= o

NoFind == [similarities |-> <<>>, top_indices |-> <<>>, results |-> <<>>]

\* the guard tests the cached matrix alone
no_prompts_loaded_cache_only(r) == prompt_embeddings[r].is_none

\* not self.prompt_library or self.prompt_embeddings is None
no_prompts_loaded(r) == Library(r) = <<>> \/ prompt_embeddings[r].is_none

\* find_best_prompt(user_query, top_k) on router r
find_best_prompt_of(r, user_query, top_k) ==
  IF no_prompts_loaded(r)
    THEN [outcome |-> "ValueError"] @@ NoFind
  ELSE
    LET similarities == dot(prompt_embeddings[r].rows, encode(user_query))
        top_indices  == SliceTo(Reversed(argsort(similarities, argsort_ties)), top_k)
        bad          == FirstBad(r, top_indices)
    IN  IF bad # 0
          THEN [outcome |-> IF top_indices[bad] > Len(prompt_names[r])
                              THEN "IndexError" ELSE "KeyError",
                similarities |-> similarities,
                top_indices  |-> top_indices,
                results      |-> <<>>]
          ELSE [outcome      |-> "ok",
                similarities |-> similarities,
                top_indices  |-> top_indices,
                results      |->
                  [p \in 1..Len(top_indices) |->
                     <<prompt_names[r][top_indices[p]],
                       similarities[top_indices[p]],
                       DictGet(Library(r), prompt_names[r][top_indices[p]]).system_prompt>>]]

\* the comprehension built from data['system_prompt']
list_prompts_system_prompts(r) ==
  {<<Library(r)[i].name, Library(r)[i].system_prompt>> : i \in 1..Len(Library(r))}

\* list_prompts(): name -> description, as the set of its pairs
list_prompts_of(r) ==
  {<<Library(r)[i].name, Library(r)[i].description>> : i \in 1..Len(Library(r))}

\* self.prompt_library[prompt_name]: a KeyError for a name not in the dict
get_prompt_details_subscript(r, n) ==
  IF DictHas(Library(r), n)
    THEN Some([description   |-> DictGet(Library(r), n).description,
               system_prompt |-> DictGet(Library(r), n).system_prompt])
    ELSE <<"KeyError">>

\* get_prompt_details(prompt_name): dict.get
get_prompt_details_of(r, n) ==
  IF DictHas(Library(r), n)
    THEN Some([description   |-> DictGet(Library(r), n).description,
               system_prompt |-> DictGet(Library(r), n).system_prompt])
    ELSE None

(* --------------------------- generate_response -------------------------- *)

\* custom_system_prompt and the API key: Optional[str]
CustomPrompts == {None, Some(""), Some("c1")}

\* truth value of an Optional[str]: None and "" are false
Truthy(s) == s # None /\ s[1] # ""

\* find_best_prompt with an embedder whose encode(user_query) may raise
find_best_prompt_call(r, user_query, top_k, encode_ok) ==
  IF ~no_prompts_loaded(r) /\ ~encode_ok
    THEN [outcome |-> "EmbedderError"] @@ NoFind
    ELSE find_best_prompt_of(r, user_query, top_k)

NoResult ==
  [keys |-> {}, matched_prompt |-> "", similarity_score |-> None,
   system_prompt_used |-> "", response |-> None, error |-> None]

\* an exception leaves generate_response
Raised(exc, ranked) ==
  [outcome |-> exc, ranked |-> ranked, sent |-> None, result |-> NoResult]

\* the except clause ends in a bare raise
chat_completion_reraise(system_prompt, user_query, matched_prompt, similarity_score, ranked, api_ok) ==
  IF api_ok
    THEN [outcome |-> "ok", ranked |-> ranked,
          sent    |-> Some([system |-> system_prompt, user |-> user_query]),
          result  |-> [keys |-> {"response", "matched_prompt",
                                 "similarity_score", "system_prompt_used",
                                 "model_used", "usage"},
                       matched_prompt     |-> matched_prompt,
                       similarity_score   |-> similarity_score,
                       system_prompt_used |-> system_prompt,
                       response |-> Some("completion"), error |-> None]]
    ELSE [outcome |-> "APIError", ranked |-> ranked,
          sent    |-> Some([system |-> system_prompt, user |-> user_query]),
          result  |-> NoResult]

\* the try block of generate_response: the request with the system prompt and
\* the query, and the dict returned on success or on any Exception
chat_completion(system_prompt, user_query, matched_prompt, similarity_score, ranked, api_ok) ==
  [outcome |-> "ok", ranked |-> ranked,
   sent    |-> Some([system |-> system_prompt, user |-> user_query]),
   result  |->
     IF api_ok
       THEN [keys |-> {"response", "matched_prompt", "similarity_score",
                       "system_prompt_used", "model_used", "usage"},
             matched_prompt     |-> matched_prompt,
             similarity_score   |-> similarity_score,
             system_prompt_used |-> system_prompt,
             response |-> Some("completion"), error |-> None]
       ELSE [keys |-> {"error", "matched_prompt", "similarity_score",
                       "system_prompt_used"},
             matched_prompt     |-> matched_prompt,
             similarity_score   |-> similarity_score,
             system_prompt_used |-> system_prompt,
             response |-> None, error |-> Some("APIError")]]

\* system_prompt, similarity_score, matched_prompt = best_matches[0]
unpack_match_swapped(m) ==
  [matched_prompt |-> m[3], similarity_score |-> m[2], system_prompt |-> m[1]]

\* matched_prompt, similarity_score, system_prompt = best_matches[0]
unpack_match(m) ==
  [matched_prompt |-> m[1], similarity_score |-> m[2], system_prompt |-> m[3]]

\* use_best_prompt is tested before custom_system_prompt
generate_response_best_first(r, user_query, use_best_prompt, custom_system_prompt, encode_ok, api_ok) ==
  IF use_best_prompt THEN
    LET best_matches == find_best_prompt_call(r, user_query, 1, encode_ok)
    IN  IF best_matches.outcome # "ok"
          THEN Raised(best_matches.outcome, TRUE)
        ELSE IF best_matches.results = <<>>
          THEN Raised("ValueError", TRUE)
        ELSE LET m == unpack_match(best_matches.results[1])
             IN  chat_completion(m.system_prompt, user_query, m.matched_prompt,
                                 Some(m.similarity_score), TRUE, api_ok)
  ELSE IF Truthy(custom_system_prompt) THEN
    chat_completion(custom_system_prompt[1], user_query, "custom", None,
                    FALSE, api_ok)
  ELSE Raised("ValueError", FALSE)

\* generate_response(user_query, use_best_prompt, custom_system_prompt) on
\* router r; the selection runs before the try block
generate_response_of(r, user_query, use_best_prompt, custom_system_prompt, encode_ok, api_ok) ==
  IF Truthy(custom_system_prompt) THEN
    chat_completion(custom_system_prompt[1], user_query, "custom", None,
                    FALSE, api_ok)
  ELSE IF use_best_prompt THEN
    LET best_matches == find_best_prompt_call(r, user_query, 1, encode_ok)
    IN  IF best_matches.outcome # "ok"
          THEN Raised(best_matches.outcome, TRUE)
        ELSE IF best_matches.results = <<>>
          THEN Raised("ValueError", TRUE)
        ELSE LET m == unpack_match(best_matches.results[1])
             IN  chat_completion(m.system_prompt, user_query, m.matched_prompt,
                                 Some(m.similarity_score), TRUE, api_ok)
  ELSE Raised("ValueError", FALSE)

(* ------------------------------- cli.py -------------------------------- *)

\* OPENAI_API_KEY in the environment: unset, empty or set
EnvKeys == {None, Some(""), Some("sk")}

\* openai_api_key or os.getenv("OPENAI_API_KEY")
api_key_of(openai_api_key, env_key) ==
  IF Truthy(openai_api_key) THEN openai_api_key ELSE env_key

\* __init__ without the test of api_key
init_unchecked(openai_api_key, env_key) == "ok"

\* SystemPromptRouter.__init__: the ValueError for a missing key is raised
\* before the catalog attributes are assigned
init_of(openai_api_key, env_key) ==
  IF Truthy(api_key_of(openai_api_key, env_key)) THEN "ok" ELSE "ValueError"

\* parsed command line
CliArgs ==
  [list_prompts : BOOLEAN, query : {None, Some(""), Some("t1")},
   top_k : TopKs, no_response : BOOLEAN]

\* what input() gives: a line, or an exception
Lines == {"quit", "exit", "q", " Quit ", "", " ", "t1", " t2 "}

Inputs ==
  [kind : {"line"}, text : Lines]
    \cup [kind : {"KeyboardInterrupt", "EOFError"}, text : {""}]

\* str.strip and str.lower on the lines above
strip(l) ==
  CASE l = " Quit " -> "Quit"
    [] l = " "      -> ""
    [] l = " t2 "   -> "t2"
    [] OTHER        -> l

lower(l) == IF l = "Quit" THEN "quit" ELSE l

\* the words that leave the interactive loop
QuitWords == {"quit", "exit", "q"}

\* how the embedder ends the encode call of the start-up load
EncodeOutcomes == {"ok", "ValueError", "RuntimeError"}

\* generate_response raises where it returns the dict with "error"
process_query_error_raised(query, top_k, no_response, encode_ok, encode_ok_gen, api_ok) ==
  LET matches == find_best_prompt_call("r1", query, top_k, encode_ok)
  IN  IF matches.outcome # "ok" THEN "query_error"
      ELSE IF \E p \in 1..Len(matches.results) :
                get_prompt_details_of("r1", matches.results[p][1]) = None
        THEN "query_error"
      ELSE IF no_response THEN "matched"
      ELSE LET response == generate_response_of("r1", query, TRUE, None,
                                                encode_ok_gen, api_ok)
           IN  IF response.outcome # "ok" THEN "query_error"
               ELSE IF "error" \in response.result.keys
                 THEN "query_error"
               ELSE "answered"

\* the body both modes run for one query: matches, their descriptions, and
\* the response unless --no-response; the event names what was printed
process_query(query, top_k, no_response, encode_ok, encode_ok_gen, api_ok) ==
  LET matches == find_best_prompt_call("r1", query, top_k, encode_ok)
  IN  IF matches.outcome # "ok" THEN "query_error"
      ELSE IF \E p \in 1..Len(matches.results) :
                get_prompt_details_of("r1", matches.results[p][1]) = None
        THEN "query_error"
      ELSE IF no_response THEN "matched"
      ELSE LET response == generate_response_of("r1", query, TRUE, None,
                                                encode_ok_gen, api_ok)
           IN  IF response.outcome # "ok" THEN "query_error"
               ELSE IF "error" \in response.result.keys
                 THEN "generation_error"
               ELSE "answered"

(* --------------------- youtube-summarizer/core.py ---------------------- *)

\* urls and ids given to process_video
Urls ==
  {"https://www.youtube.com/watch?v=dQw4w9WgXcQ",
   "https://www.youtube.com/watch?v=dQw4w9WgXcQ&t=3s",
   "https://youtu.be/dQw4w9WgXcQ",
   "dQw4w9WgXcQ",
   "https://example.com/video",
   ""}

\* extract_video_id on the urls above: the two patterns, then the bare id of
\* 11 alphanumeric characters, then the ValueError
extract_video_id(url) ==
  IF url \in {"https://www.youtube.com/watch?v=dQw4w9WgXcQ",
              "https://www.youtube.com/watch?v=dQw4w9WgXcQ&t=3s",
              "https://youtu.be/dQw4w9WgXcQ",
              "dQw4w9WgXcQ"}
    THEN [outcome |-> "ok", video_id |-> "dQw4w9WgXcQ", error |-> ""]
    ELSE [outcome |-> "ValueError", video_id |-> "",
          error |-> "Invalid YouTube URL or video ID"]

\* the transcripts yt_api.list gives, by language
TranscriptLists == {<<>>, <<"de">>, <<"fr", "de">>}

\* what the transcript API and the formatter do in one get_transcript call
TranscriptFaults ==
  [api_ok : BOOLEAN, fetch_ok : BOOLEAN, format_ok : BOOLEAN,
   list_ok : BOOLEAN, listed : TranscriptLists,
   first_fetch_ok : BOOLEAN, first_format_ok : BOOLEAN]

\* formatter.format_transcript of the transcript fetched in a language
format_transcript(language) == <<"text", language>>

\* the except clause re-raises and no other transcript is looked for
get_transcript_no_fallback(video_id, f) ==
  IF f.api_ok /\ f.fetch_ok /\ f.format_ok
    THEN [outcome |-> "ok", error |-> "", text |-> format_transcript("en"),
          calls |-> <<"YouTubeTranscriptApi", "fetch", "format_transcript">>]
    ELSE [outcome |-> "Exception", error |-> "Could not retrieve transcript",
          text |-> <<>>,
          calls |-> IF ~f.api_ok THEN <<"YouTubeTranscriptApi">>
                    ELSE IF ~f.fetch_ok THEN <<"YouTubeTranscriptApi", "fetch">>
                    ELSE <<"YouTubeTranscriptApi", "fetch", "format_transcript">>]

\* get_transcript(video_id): the fetch in the preferred languages; on any
\* Exception of it the list of transcripts and the fetch of the first one;
\* on any Exception of that the "Could not retrieve transcript" Exception
get_transcript_of(video_id, f) ==
  LET primary == IF ~f.api_ok THEN <<"YouTubeTranscriptApi">>
                 ELSE IF ~f.fetch_ok THEN <<"YouTubeTranscriptApi", "fetch">>
                 ELSE <<"YouTubeTranscriptApi", "fetch", "format_transcript">>
      fallback == IF ~f.api_ok THEN <<>>
                  ELSE IF ~f.list_ok \/ f.listed = <<>> THEN <<"list">>
                  ELSE IF ~f.first_fetch_ok THEN <<"list", "first.fetch">>
                  ELSE <<"list", "first.fetch", "format_transcript">>
  IN  IF f.api_ok /\ f.fetch_ok /\ f.format_ok
        THEN [outcome |-> "ok", error |-> "",
              text |-> format_transcript("en"), calls |-> primary]
      ELSE IF /\ f.api_ok /\ f.list_ok /\ f.listed # <<>>
              /\ f.first_fetch_ok /\ f.first_format_ok
        THEN [outcome |-> "ok", error |-> "",
              text |-> format_transcript(f.listed[1]),
              calls |-> primary \o fallback]
      ELSE [outcome |-> "Exception",
            error |-> "Could not retrieve transcript",
            text |-> <<>>, calls |-> primary \o fallback]

SummaryTypes == {"short", "medium", "detailed", "brief"}

\* summarize_transcript / get_detailed_summary: the summary asked of the
\* model, an unknown length taken as "medium"
summary_of(transcript, summary_type) ==
  [of |-> transcript,
   style |-> IF summary_type \in {"short", "medium", "long", "detailed"}
               THEN summary_type ELSE "medium"]

NoVideoResult ==
  [keys |-> {}, success |-> FALSE, error |-> "", url |-> "", video_id |-> "",
   summary |-> <<>>, summary_type |-> "", transcript |-> <<>>]

Failure(url, error, steps) ==
  [outcome |-> "ok", steps |-> steps,
   result |-> [NoVideoResult EXCEPT !.keys = {"success", "error", "url"},
                                    !.error = error, !.url = url]]

\* process_video without its try / except
process_video_unguarded(url, summary_type, f, summary_ok) ==
  LET id == extract_video_id(url)
      t  == get_transcript_of(id.video_id, f)
  IN  IF id.outcome # "ok"
        THEN [outcome |-> id.outcome, steps |-> <<"extract_video_id">>,
              result |-> NoVideoResult]
      ELSE IF t.outcome # "ok"
        THEN [outcome |-> t.outcome,
              steps |-> <<"extract_video_id", "get_video_info", "get_transcript">>,
              result |-> NoVideoResult]
      ELSE IF ~summary_ok
        THEN [outcome |-> "Exception",
              steps |-> <<"extract_video_id", "get_video_info", "get_transcript", "summary">>,
              result |-> NoVideoResult]
      ELSE [outcome |-> "ok",
            steps |-> <<"extract_video_id", "get_video_info", "get_transcript", "summary">>,
            result |-> [NoVideoResult EXCEPT
                          !.keys = {"success", "video_id", "video_info",
                                    "transcript", "summary", "summary_type",
                                    "transcript_length", "word_count"},
                          !.success = TRUE, !.video_id = id.video_id,
                          !.transcript = t.text,
                          !.summary = Some(summary_of(t.text, summary_type)),
                          !.summary_type = summary_type]]

\* process_video(url, summary_type): the steps in order inside one try; any
\* Exception gives the dict with success False, the error text and the url.
\* get_video_info catches its own exceptions and cannot end the pipeline.
process_video_of(url, summary_type, f, summary_ok) ==
  LET id == extract_video_id(url)
      t  == get_transcript_of(id.video_id, f)
  IN  IF id.outcome # "ok"
        THEN Failure(url, id.error, <<"extract_video_id">>)
      ELSE IF t.outcome # "ok"
        THEN Failure(url, t.error,
                     <<"extract_video_id", "get_video_info", "get_transcript">>)
      ELSE IF ~summary_ok
        THEN Failure(url, IF summary_type = "detailed"
                            THEN "Error generating detailed summary"
                            ELSE "Error generating summary",
                     <<"extract_video_id", "get_video_info", "get_transcript", "summary">>)
      ELSE [outcome |-> "ok",
            steps |-> <<"extract_video_id", "get_video_info", "get_transcript", "summary">>,
            result |-> [NoVideoResult EXCEPT
                          !.keys = {"success", "video_id", "video_info",
                                    "transcript", "summary", "summary_type",
                                    "transcript_length", "word_count"},
                          !.success = TRUE, !.video_id = id.video_id,
                          !.transcript = t.text,
                          !.summary = Some(summary_of(t.text, summary_type)),
                          !.summary_type = summary_type]]

(* -------------------- email-assistant/email_agents.py ------------------ *)

\* the keys of category_prompts, in the order of the dict (the first three)
CategoryKeys == <<"urgent", "work", "personal">>

\* np.argmax: the first index of the greatest value
argmax(sims) ==
  CHOOSE i \in 1..Len(sims) :
    /\ \A j \in 1..Len(sims) : sims[j] <= sims[i]
    /\ \A j \in 1..(i - 1) : sims[j] < sims[i]

\* _classify_category: the category of the greatest similarity and that
\* similarity; on any Exception (UNKNOWN, 0.0)
classify_category(c) ==
  IF c.ok THEN <<CategoryKeys[argmax(c.sims)], c.sims[argmax(c.sims)]>>
          ELSE <<"unknown", 0>>

\* _assess_priority on the words of the model's reply; on any Exception MEDIUM
assess_priority(p) ==
  IF ~p.ok THEN "medium"
  ELSE IF "high" \in p.words THEN "high"
  ELSE IF "medium" \in p.words THEN "medium"
  ELSE "low"

\* the keys of action_mapping, in the order of the dict
ActionKeys == <<"reply", "forward", "archive", "delete", "schedule", "flag", "ignore">>

\* _suggest_action: the first key of action_mapping the reply contains,
\* REPLY when it contains none and on any Exception
suggest_action(a) ==
  IF ~a.ok \/ \A i \in 1..Len(ActionKeys) : ActionKeys[i] \notin a.words
    THEN "reply"
    ELSE ActionKeys[CHOOSE i \in 1..Len(ActionKeys) :
                      /\ ActionKeys[i] \in a.words
                      /\ \A j \in 1..(i - 1) : ActionKeys[j] \notin a.words]

\* _analyze_sentiment; on any Exception "neutral"
analyze_sentiment(t) ==
  IF ~t.ok THEN "neutral"
  ELSE IF "positive" \in t.words THEN "positive"
  ELSE IF "negative" \in t.words THEN "negative"
  ELSE "neutral"

\* _extract_key_topics: the first five topics of the reply; on any
\* Exception the empty list
extract_key_topics(k) ==
  IF ~k.ok THEN <<>>
  ELSE IF Len(k.topics) <= 5 THEN k.topics ELSE SubSeq(k.topics, 1, 5)

\* _suggest_reply_tone
suggest_reply_tone(category, sentiment) ==
  IF category = "work" THEN "professional"
  ELSE IF category = "personal" THEN "friendly"
  ELSE IF sentiment = "negative" THEN "diplomatic"
  ELSE "professional"

\* _estimate_response_time
estimate_response_time(category, priority, urgency_indicators) ==
  IF priority = "high" \/ urgency_indicators # <<>> THEN "immediate"
  ELSE IF category = "work" THEN "within 24 hours"
  ELSE IF category = "personal" THEN "within 2-3 days"
  ELSE "when convenient"

\* the EmailAnalysis of the except clause of analyze_email
DefaultAnalysis(email_id) ==
  [email_id |-> email_id, category |-> "unknown", priority |-> "low",
   suggested_action |-> "ignore", confidence_score |-> 0, key_topics |-> <<>>,
   sentiment |-> "neutral", urgency_indicators |-> <<>>,
   suggested_reply_tone |-> "professional",
   estimated_response_time |-> "unknown"]

AnalysisSteps ==
  <<"_classify_category", "_assess_priority", "_suggest_action",
    "_analyze_sentiment", "_extract_key_topics",
    "_identify_urgency_indicators", "_suggest_reply_tone",
    "_estimate_response_time">>

\* the Exception of _assess_priority is not caught in the step
analyze_email_step_escalates(email, f) ==
  LET c == classify_category(f.classify)
      priority == assess_priority(f.priority)
      sentiment == analyze_sentiment(f.sentiment)
  IN  IF f.outside = "prepare"
        THEN [outcome |-> "ok", steps |-> <<>>,
              analysis |-> DefaultAnalysis(email.id)]
      ELSE IF ~f.priority.ok
        THEN [outcome |-> "ok", steps |-> SubSeq(AnalysisSteps, 1, 2),
              analysis |-> DefaultAnalysis(email.id)]
      ELSE IF f.outside = "build"
        THEN [outcome |-> "ok", steps |-> AnalysisSteps,
              analysis |-> DefaultAnalysis(email.id)]
      ELSE [outcome |-> "ok", steps |-> AnalysisSteps,
            analysis |->
              [email_id |-> email.id, category |-> c[1], priority |-> priority,
               suggested_action |-> suggest_action(f.action),
               confidence_score |-> c[2],
               key_topics |-> extract_key_topics(f.topics),
               sentiment |-> sentiment,
               urgency_indicators |-> email.urgency,
               suggested_reply_tone |-> suggest_reply_tone(c[1], sentiment),
               estimated_response_time |->
                 estimate_response_time(c[1], priority, email.urgency)]]

\* analyze_email(email): the steps in order inside one try, each of the
\* first five with its own except clause; an Exception raised anywhere else
\* in the try gives the default analysis of the except clause
analyze_email_of(email, f) ==
  LET c == classify_category(f.classify)
      priority == assess_priority(f.priority)
      sentiment == analyze_sentiment(f.sentiment)
  IN  IF f.outside = "prepare"
        THEN [outcome |-> "ok", steps |-> <<>>,
              analysis |-> DefaultAnalysis(email.id)]
      ELSE IF f.outside = "build"
        THEN [outcome |-> "ok", steps |-> AnalysisSteps,
              analysis |-> DefaultAnalysis(email.id)]
      ELSE [outcome |-> "ok", steps |-> AnalysisSteps,
            analysis |->
              [email_id |-> email.id, category |-> c[1], priority |-> priority,
               suggested_action |-> suggest_action(f.action),
               confidence_score |-> c[2],
               key_topics |-> extract_key_topics(f.topics),
               sentiment |-> sentiment,
               urgency_indicators |-> email.urgency,
               suggested_reply_tone |-> suggest_reply_tone(c[1], sentiment),
               estimated_response_time |->
                 estimate_response_time(c[1], priority, email.urgency)]]

\* the emails analysed: the id and the urgency keywords of the content
Emails ==
  {[id |-> "m1", urgency |-> <<>>], [id |-> "m2", urgency |-> <<"urgent", "today">>]}

\* what the embedder and the chat model do in one analyze_email call
AnalysisFaults ==
  [outside : {"none", "prepare", "build"},
   classify : {[ok |-> FALSE, sims |-> <<0, 0, 0>>],
               [ok |-> TRUE, sims |-> <<2, 2, 1>>],
               [ok |-> TRUE, sims |-> <<1, 0, 3>>]},
   priority : {[ok |-> FALSE, words |-> {}],
               [ok |-> TRUE, words |-> {"high", "medium"}],
               [ok |-> TRUE, words |-> {"low"}]},
   action : {[ok |-> FALSE, words |-> {}],
             [ok |-> TRUE, words |-> {"ignore"}],
             [ok |-> TRUE, words |-> {"flag", "forward"}]},
   sentiment : {[ok |-> FALSE, words |-> {}],
                [ok |-> TRUE, words |-> {"negative"}],
                [ok |-> TRUE, words |-> {"thanks"}]},
   topics : {[ok |-> FALSE, topics |-> <<>>],
             [ok |-> TRUE, topics |-> <<"a", "b", "c", "d", "e", "f">>]}]

(* ---------------------------- call records ----------------------------- *)

NoCall ==
  [op |-> "init", router |-> "r1", entry |-> <<>>, prompts |-> <<>>,
   shared |-> FALSE, query |-> "", top_k |-> 0,
   outcome |-> "ok", pre |-> <<>>, value |-> <<>>] @@ NoFind

\* no cli.py process
NotRunning ==
  [pc |-> "off", mode |-> "", env_key |-> None, router |-> "none",
   args |-> [list_prompts |-> FALSE, query |-> None, top_k |-> 1,
             no_response |-> FALSE],
   exit_code |-> None, event |-> "",
   input  |-> [kind |-> "", text |-> ""],
   faults |-> [load_encode |-> "ok", encode_ok |-> TRUE,
               encode_ok_gen |-> TRUE, api_ok |-> TRUE]]

(* ------------------------------- actions ------------------------------- *)

Init ==
  /\ heap = [o \in {"PROMPT_LIBRARY", "own1", "own2"} |->
               IF o = "PROMPT_LIBRARY" THEN PROMPT_LIBRARY ELSE <<>>]
  /\ prompt_library = [r \in Routers |-> OwnObj(r)]
  /\ prompt_names = [r \in Routers |-> <<>>]
  /\ prompt_embeddings = [r \in Routers |-> NoEmbeddings]
  /\ argsort_ties \in {"low_index_first", "high_index_first"}
  /\ last = NoCall
  /\ cli = NotRunning

add_prompt(r, name, description, system_prompt) ==
  LET obj == prompt_library[r]
      lib == DictSet(heap[obj], name, Item(name, description, system_prompt))
      c   == compute_prompt_embeddings(lib, prompt_names[r], prompt_embeddings[r])
  IN  /\ heap' = [heap EXCEPT ![obj] = lib]
      /\ prompt_names' = [prompt_names EXCEPT ![r] = c.names]
      /\ prompt_embeddings' = [prompt_embeddings EXCEPT ![r] = c.emb]
      /\ last' = [NoCall EXCEPT !.op = "add_prompt", !.router = r,
                    !.entry = Some(Item(name, description, system_prompt)),
                    !.pre = heap[obj], !.value = embedder_calls(lib)]
      /\ UNCHANGED <<prompt_library, argsort_ties, cli>>

\* self.prompt_library.update(prompts) in place of the assignment
assign_library_by_update(r, shared, prompts) ==
  LET merge[i \in 0..Len(prompts)] ==
        IF i = 0 THEN Library(r)
                 ELSE DictSet(merge[i - 1], prompts[i].name, prompts[i])
  IN  [ref  |-> prompt_library,
       heap |-> [heap EXCEPT ![prompt_library[r]] = merge[Len(prompts)]]]

\* self.prompt_library = prompts: the attribute refers to the caller's object;
\* the dict it referred to before is dropped unless it is PROMPT_LIBRARY
assign_library(r, shared, prompts) ==
  [ref  |-> [prompt_library EXCEPT
               ![r] = IF shared THEN "PROMPT_LIBRARY" ELSE OwnObj(r)],
   heap |-> [heap EXCEPT ![OwnObj(r)] = IF shared THEN <<>> ELSE prompts]]

\* load_prompt_library(prompts): prompts is PROMPT_LIBRARY itself (shared)
\* or a dict literal only this call refers to
load_prompt_library(r, shared, prompts) ==
  /\ shared => prompts = heap["PROMPT_LIBRARY"]
  /\ LET a == assign_library(r, shared, prompts)
         c == compute_prompt_embeddings(a.heap[a.ref[r]], prompt_names[r],
                                        prompt_embeddings[r])
     IN  /\ prompt_library' = a.ref
         /\ heap' = a.heap
         /\ prompt_names' = [prompt_names EXCEPT ![r] = c.names]
         /\ prompt_embeddings' = [prompt_embeddings EXCEPT ![r] = c.emb]
         /\ last' = [NoCall EXCEPT !.op = "load_prompt_library", !.router = r,
                       !.prompts = prompts, !.shared = shared,
                       !.pre = Library(r),
                       !.value = embedder_calls(a.heap[a.ref[r]])]
  /\ UNCHANGED <<argsort_ties, cli>>

\* find_best_prompt brings prompt_names up to date with the catalog first
find_best_prompt_resync(r, user_query, top_k) ==
  /\ LET f == find_best_prompt_of(r, user_query, top_k)
     IN  last' = [NoCall EXCEPT !.op = "find_best_prompt", !.router = r,
                    !.query = user_query, !.top_k = top_k,
                    !.outcome = f.outcome, !.pre = Library(r),
                    !.similarities = f.similarities,
                    !.top_indices = f.top_indices,
                    !.results = f.results]
  /\ prompt_names' = [prompt_names EXCEPT ![r] = DictKeys(Library(r))]
  /\ UNCHANGED <<heap, prompt_library, prompt_embeddings, argsort_ties, cli>>

find_best_prompt(r, user_query, top_k) ==
  /\ LET f == find_best_prompt_of(r, user_query, top_k)
     IN  last' = [NoCall EXCEPT !.op = "find_best_prompt", !.router = r,
                    !.query = user_query, !.top_k = top_k,
                    !.outcome = f.outcome, !.pre = Library(r),
                    !.similarities = f.similarities,
                    !.top_indices = f.top_indices,
                    !.results = f.results]
  /\ UNCHANGED <<heap, prompt_library, prompt_names, prompt_embeddings,
                 argsort_ties, cli>>

list_prompts(r) ==
  /\ last' = [NoCall EXCEPT !.op = "list_prompts", !.router = r,
                !.pre = Library(r), !.value = list_prompts_of(r)]
  /\ UNCHANGED <<heap, prompt_library, prompt_names, prompt_embeddings,
                 argsort_ties, cli>>

get_prompt_details(r, n) ==
  /\ last' = [NoCall EXCEPT !.op = "get_prompt_details", !.router = r,
                !.query = n, !.pre = Library(r),
                !.value = get_prompt_details_of(r, n)]
  /\ UNCHANGED <<heap, prompt_library, prompt_names, prompt_embeddings,
                 argsort_ties, cli>>

Next ==
  \/ \E r \in Routers, e \in Items :
       add_prompt(r, e.name, e.description, e.system_prompt)
  \/ \E r \in Routers, l \in Libraries : load_prompt_library(r, FALSE, l)
  \/ \E r \in Routers : load_prompt_library(r, TRUE, heap["PROMPT_LIBRARY"])
  \/ \E r \in Routers, q \in Texts, k \in TopKs : find_best_prompt(r, q, k)
  \/ \E r \in Routers : list_prompts(r)
  \/ \E r \in Routers, n \in Names : get_prompt_details(r, n)

Spec == Init /\ [][Next]_vars

generate_response(r, user_query, use_best_prompt, custom_system_prompt, encode_ok, api_ok) ==
  /\ LET g == generate_response_of(r, user_query, use_best_prompt,
                                   custom_system_prompt, encode_ok, api_ok)
     IN  last' = [NoCall EXCEPT !.op = "generate_response", !.router = r,
                    !.query = user_query, !.outcome = g.outcome,
                    !.pre = Library(r),
                    !.value = [use_best_prompt      |-> use_best_prompt,
                               custom_system_prompt |-> custom_system_prompt,
                               encode_ok            |-> encode_ok,
                               api_ok               |-> api_ok,
                               ranked               |-> g.ranked,
                               sent                 |-> g.sent,
                               result               |-> g.result]]
  /\ UNCHANGED <<heap, prompt_library, prompt_names, prompt_embeddings,
                 argsort_ties, cli>>

\* find_best_prompt with an embedder that may raise on the query
find_best_prompt_fallible(r, user_query, top_k, encode_ok) ==
  /\ LET f == find_best_prompt_call(r, user_query, top_k, encode_ok)
     IN  last' = [NoCall EXCEPT !.op = "find_best_prompt", !.router = r,
                    !.query = user_query, !.top_k = top_k,
                    !.outcome = f.outcome, !.pre = Library(r),
                    !.similarities = f.similarities,
                    !.top_indices = f.top_indices,
                    !.results = f.results]
  /\ UNCHANGED <<heap, prompt_library, prompt_names, prompt_embeddings,
                 argsort_ties, cli>>

\* the router that serves generate_response
GenRouters == {"r1"}

GenNext ==
  \/ \E r \in GenRouters, e \in Items :
       add_prompt(r, e.name, e.description, e.system_prompt)
  \/ \E r \in GenRouters, l \in Libraries : load_prompt_library(r, FALSE, l)
  \/ \E r \in GenRouters : load_prompt_library(r, TRUE, heap["PROMPT_LIBRARY"])
  \/ \E r \in GenRouters, q \in Texts, u \in BOOLEAN, c \in CustomPrompts,
        e \in BOOLEAN, a \in BOOLEAN :
       generate_response(r, q, u, c, e, a)
  \/ \E r \in GenRouters, q \in Texts, k \in TopKs : find_best_prompt(r, q, k)
  \/ \E r \in GenRouters : list_prompts(r)
  \/ \E r \in GenRouters, n \in Names : get_prompt_details(r, n)

SpecGen == Init /\ [][GenNext]_vars

\* add_prompt with an embedder that may raise: the entry is stored first
add_prompt_call(r, name, description, system_prompt, encode_ok) ==
  LET obj == prompt_library[r]
      lib == DictSet(heap[obj], name, Item(name, description, system_prompt))
      c   == compute_prompt_embeddings_call(lib, prompt_names[r],
                                            prompt_embeddings[r], encode_ok)
  IN  /\ heap' = [heap EXCEPT ![obj] = lib]
      /\ prompt_names' = [prompt_names EXCEPT ![r] = c.names]
      /\ prompt_embeddings' = [prompt_embeddings EXCEPT ![r] = c.emb]
      /\ last' = [NoCall EXCEPT !.op = "add_prompt", !.router = r,
                    !.entry = Some(Item(name, description, system_prompt)),
                    !.outcome = c.outcome, !.pre = heap[obj],
                    !.value = embedder_calls(lib)]
      /\ UNCHANGED <<prompt_library, argsort_ties, cli>>

\* load_prompt_library with an embedder that may raise: the library is
\* assigned first
load_prompt_library_call(r, shared, prompts, encode_ok) ==
  /\ shared => prompts = heap["PROMPT_LIBRARY"]
  /\ LET a == assign_library(r, shared, prompts)
         c == compute_prompt_embeddings_call(a.heap[a.ref[r]], prompt_names[r],
                                             prompt_embeddings[r], encode_ok)
     IN  /\ prompt_library' = a.ref
         /\ heap' = a.heap
         /\ prompt_names' = [prompt_names EXCEPT ![r] = c.names]
         /\ prompt_embeddings' = [prompt_embeddings EXCEPT ![r] = c.emb]
         /\ last' = [NoCall EXCEPT !.op = "load_prompt_library", !.router = r,
                       !.prompts = prompts, !.shared = shared,
                       !.outcome = c.outcome, !.pre = Library(r),
                       !.value = embedder_calls(a.heap[a.ref[r]])]
  /\ UNCHANGED <<argsort_ties, cli>>

\* one router whose embedder may fail in any call
FailNext ==
  \/ \E r \in GenRouters, e \in Items, ok \in BOOLEAN :
       add_prompt_call(r, e.name, e.description, e.system_prompt, ok)
  \/ \E r \in GenRouters, l \in Libraries, ok \in BOOLEAN :
       load_prompt_library_call(r, FALSE, l, ok)
  \/ \E r \in GenRouters, ok \in BOOLEAN :
       load_prompt_library_call(r, TRUE, heap["PROMPT_LIBRARY"], ok)
  \/ \E r \in GenRouters, q \in Texts, k \in TopKs, ok \in BOOLEAN :
       find_best_prompt_fallible(r, q, k, ok)

SpecFail == Init /\ [][FailNext]_vars

\* a cli.py process about to run main() after parse_args
CliInit ==
  /\ heap = [o \in {"PROMPT_LIBRARY", "own1", "own2"} |->
               IF o = "PROMPT_LIBRARY" THEN PROMPT_LIBRARY ELSE <<>>]
  /\ prompt_library = [r \in Routers |-> OwnObj(r)]
  /\ prompt_names = [r \in Routers |-> <<>>]
  /\ prompt_embeddings = [r \in Routers |-> NoEmbeddings]
  /\ argsort_ties \in {"low_index_first", "high_index_first"}
  /\ last = NoCall
  /\ \E a \in CliArgs, k \in EnvKeys :
       cli = [NotRunning EXCEPT !.pc = "start", !.args = a, !.env_key = k]

Exit(code, event) ==
  [cli EXCEPT !.pc = "exited", !.exit_code = Some(code), !.event = event]

\* main(): the router is built and the library loaded; a ValueError is
\* printed and ends the run with sys.exit(1), any other exception leaves
\* main() and the interpreter exits with status 1
cli_start(load_encode) ==
  /\ cli.pc = "start"
  /\ IF init_of(None, cli.env_key) # "ok"
       THEN /\ cli' = Exit(1, "config_error")
            /\ UNCHANGED <<heap, prompt_library, prompt_names,
                           prompt_embeddings>>
       ELSE LET a == assign_library("r1", TRUE, heap["PROMPT_LIBRARY"])
                c == compute_prompt_embeddings_call(a.heap[a.ref["r1"]],
                                                    prompt_names["r1"],
                                                    prompt_embeddings["r1"],
                                                    load_encode = "ok")
            IN  /\ prompt_library' = a.ref
                /\ heap' = a.heap
                /\ prompt_names' = [prompt_names EXCEPT !["r1"] = c.names]
                /\ prompt_embeddings' =
                     [prompt_embeddings EXCEPT !["r1"] = c.emb]
                /\ cli' = IF c.outcome # "ok"
                            THEN [Exit(1, IF load_encode = "ValueError"
                                            THEN "load_error"
                                            ELSE "uncaught")
                                    EXCEPT !.router = "r1",
                                           !.faults.load_encode = load_encode]
                            ELSE [cli EXCEPT !.pc = "ready", !.router = "r1"]
  /\ UNCHANGED <<argsort_ties, last>>

\* --list-prompts: the names and descriptions are printed and main() returns
cli_list_prompts ==
  /\ cli.pc = "ready"
  /\ cli.args.list_prompts
  /\ cli' = [Exit(0, "listed") EXCEPT !.mode = "list"]
  /\ UNCHANGED <<heap, prompt_library, prompt_names, prompt_embeddings,
                 argsort_ties, last>>

\* a query on the command line: any Exception of the matching or of the
\* generation is printed and ends the run with sys.exit(1)
cli_query(encode_ok, encode_ok_gen, api_ok) ==
  /\ cli.pc = "ready"
  /\ ~cli.args.list_prompts
  /\ Truthy(cli.args.query)
  /\ LET ev == process_query(cli.args.query[1], cli.args.top_k,
                             cli.args.no_response, encode_ok, encode_ok_gen,
                             api_ok)
     IN  cli' = [Exit(IF ev = "query_error" THEN 1 ELSE 0, ev)
                   EXCEPT !.mode = "query",
                          !.faults.encode_ok = encode_ok,
                          !.faults.encode_ok_gen = encode_ok_gen,
                          !.faults.api_ok = api_ok]
  /\ UNCHANGED <<heap, prompt_library, prompt_names, prompt_embeddings,
                 argsort_ties, last>>

\* no query on the command line: the banner, then the loop
cli_interactive ==
  /\ cli.pc = "ready"
  /\ ~cli.args.list_prompts
  /\ ~Truthy(cli.args.query)
  /\ cli' = [cli EXCEPT !.pc = "input", !.mode = "interactive"]
  /\ UNCHANGED <<heap, prompt_library, prompt_names, prompt_embeddings,
                 argsort_ties, last>>

\* the except Exception clause of the loop ends in sys.exit(1)
interactive_turn_exit_on_error(in, encode_ok, encode_ok_gen, api_ok) ==
  LET query == strip(in.text)
      ev    == process_query(query, cli.args.top_k, cli.args.no_response,
                             encode_ok, encode_ok_gen, api_ok)
  IN  IF in.kind = "KeyboardInterrupt" THEN Exit(0, "KeyboardInterrupt")
      ELSE IF in.kind = "EOFError" THEN Exit(1, "input_error")
      ELSE IF lower(query) \in QuitWords THEN Exit(0, "quit")
      ELSE IF query = "" THEN [cli EXCEPT !.event = "empty_line"]
      ELSE IF ev = "query_error" THEN Exit(1, ev)
      ELSE [cli EXCEPT !.event = ev]

\* one turn of the loop: input(), strip, the quit words, the empty line, the
\* query; KeyboardInterrupt breaks, any other Exception is printed and the
\* loop goes on
interactive_turn(in, encode_ok, encode_ok_gen, api_ok) ==
  LET query == strip(in.text)
  IN  IF in.kind = "KeyboardInterrupt" THEN Exit(0, "KeyboardInterrupt")
      ELSE IF in.kind = "EOFError" THEN [cli EXCEPT !.event = "input_error"]
      ELSE IF lower(query) \in QuitWords THEN Exit(0, "quit")
      ELSE IF query = "" THEN [cli EXCEPT !.event = "empty_line"]
      ELSE [cli EXCEPT !.event =
              process_query(query, cli.args.top_k, cli.args.no_response,
                            encode_ok, encode_ok_gen, api_ok)]

cli_input(in, encode_ok, encode_ok_gen, api_ok) ==
  /\ cli.pc = "input"
  /\ cli' = [interactive_turn(in, encode_ok, encode_ok_gen, api_ok)
               EXCEPT !.input = in,
                      !.faults.encode_ok = encode_ok,
                      !.faults.encode_ok_gen = encode_ok_gen,
                      !.faults.api_ok = api_ok]
  /\ UNCHANGED <<heap, prompt_library, prompt_names, prompt_embeddings,
                 argsort_ties, last>>

CliNext ==
  \/ \E e \in EncodeOutcomes : cli_start(e)
  \/ cli_list_prompts
  \/ \E e \in BOOLEAN, g \in BOOLEAN, a \in BOOLEAN : cli_query(e, g, a)
  \/ cli_interactive
  \/ \E in \in Inputs, e \in BOOLEAN, g \in BOOLEAN, a \in BOOLEAN :
       cli_input(in, e, g, a)

SpecCli == CliInit /\ [][CliNext]_vars

get_transcript(video_id, f) ==
  /\ LET t == get_transcript_of(video_id, f)
     IN  last' = [NoCall EXCEPT !.op = "get_transcript", !.query = video_id,
                    !.outcome = t.outcome,
                    !.value = [faults |-> f, error |-> t.error,
                               text |-> t.text, calls |-> t.calls]]
  /\ UNCHANGED <<heap, prompt_library, prompt_names, prompt_embeddings,
                 argsort_ties, cli>>

process_video(url, summary_type, f, summary_ok) ==
  /\ LET v == process_video_of(url, summary_type, f, summary_ok)
     IN  last' = [NoCall EXCEPT !.op = "process_video", !.query = url,
                    !.outcome = v.outcome,
                    !.value = [summary_type |-> summary_type, faults |-> f,
                               summary_ok |-> summary_ok, steps |-> v.steps,
                               result |-> v.result]]
  /\ UNCHANGED <<heap, prompt_library, prompt_names, prompt_embeddings,
                 argsort_ties, cli>>

YTNext ==
  \/ \E f \in TranscriptFaults : get_transcript("dQw4w9WgXcQ", f)
  \/ \E u \in Urls, t \in SummaryTypes, ok \in BOOLEAN :
       \E f \in {g \in TranscriptFaults : g.api_ok /\ g.format_ok /\ g.list_ok /\ g.first_format_ok} :
         process_video(u, t, f, ok)

SpecYT == Init /\ [][YTNext]_vars

analyze_email(email, f) ==
  /\ LET a == analyze_email_of(email, f)
     IN  last' = [NoCall EXCEPT !.op = "analyze_email", !.query = email.id,
                    !.outcome = a.outcome,
                    !.value = [faults |-> f, steps |-> a.steps,
                               analysis |-> a.analysis]]
  /\ UNCHANGED <<heap, prompt_library, prompt_names, prompt_embeddings,
                 argsort_ties, cli>>

EmailNext == \E email \in Emails, f \in AnalysisFaults : analyze_email(email, f)

SpecEmail == Init /\ [][EmailNext]_vars

\* the calls of a sequence both routers are taken through: add_prompt of an
\* entry and load_prompt_library(get_prompt_library())
ScriptCalls ==
  {[op |-> "add_prompt", entry |-> e, shared |-> FALSE, prompts |-> <<>>] : e \in Items}
  \cup {[op |-> "load_prompt_library", entry |-> Item("", "", ""), shared |-> TRUE, prompts |-> <<>>]}

Scripts == UNION {[1..n -> ScriptCalls] : n \in 0..MaxScript}

\* two routers and a sequence of calls, none of it made yet
ScriptInit ==
  /\ heap = [o \in {"PROMPT_LIBRARY", "own1", "own2"} |->
               IF o = "PROMPT_LIBRARY" THEN PROMPT_LIBRARY ELSE <<>>]
  /\ prompt_library = [r \in Routers |-> OwnObj(r)]
  /\ prompt_names = [r \in Routers |-> <<>>]
  /\ prompt_embeddings = [r \in Routers |-> NoEmbeddings]
  /\ argsort_ties \in {"low_index_first", "high_index_first"}
  /\ \E script \in Scripts :
       last = [NoCall EXCEPT !.op = "script",
                 !.value = [script |-> script, pos |-> [r \in Routers |-> 0]]]
  /\ cli = NotRunning

\* router r makes the next call of the sequence, an add_prompt
script_add_prompt(r) ==
  LET i == last.value.pos[r] + 1
  IN  /\ i <= Len(last.value.script)
      /\ last.value.script[i].op = "add_prompt"
      /\ LET e   == last.value.script[i].entry
             obj == prompt_library[r]
             lib == DictSet(heap[obj], e.name, e)
             c   == compute_prompt_embeddings(lib, prompt_names[r], prompt_embeddings[r])
         IN  /\ heap' = [heap EXCEPT ![obj] = lib]
             /\ prompt_names' = [prompt_names EXCEPT ![r] = c.names]
             /\ prompt_embeddings' = [prompt_embeddings EXCEPT ![r] = c.emb]
      /\ last' = [NoCall EXCEPT !.op = "add_prompt", !.router = r,
                    !.value = [last.value EXCEPT !.pos[r] = i]]
      /\ UNCHANGED <<prompt_library, argsort_ties, cli>>

\* router r makes the next call of the sequence, a load_prompt_library
script_load_prompt_library(r) ==
  LET i == last.value.pos[r] + 1
  IN  /\ i <= Len(last.value.script)
      /\ last.value.script[i].op = "load_prompt_library"
      /\ LET call == last.value.script[i]
             a == assign_library(r, call.shared, call.prompts)
             c == compute_prompt_embeddings(a.heap[a.ref[r]], prompt_names[r],
                                            prompt_embeddings[r])
         IN  /\ prompt_library' = a.ref
             /\ heap' = a.heap
             /\ prompt_names' = [prompt_names EXCEPT ![r] = c.names]
             /\ prompt_embeddings' = [prompt_embeddings EXCEPT ![r] = c.emb]
      /\ last' = [NoCall EXCEPT !.op = "load_prompt_library", !.router = r,
                    !.value = [last.value EXCEPT !.pos[r] = i]]
      /\ UNCHANGED <<argsort_ties, cli>>

\* a query on router r between the calls of the sequence
script_find_best_prompt(r, user_query, top_k) ==
  /\ LET f == find_best_prompt_of(r, user_query, top_k)
     IN  last' = [NoCall EXCEPT !.op = "find_best_prompt", !.router = r,
                    !.query = user_query, !.top_k = top_k,
                    !.outcome = f.outcome,
                    !.similarities = f.similarities,
                    !.top_indices = f.top_indices,
                    !.results = f.results,
                    !.value = last.value]
  /\ UNCHANGED <<heap, prompt_library, prompt_names, prompt_embeddings,
                 argsort_ties, cli>>

ScriptNext ==
  \/ \E r \in Routers : script_add_prompt(r)
  \/ \E r \in Routers : script_load_prompt_library(r)
  \/ \E r \in Routers, q \in Texts : script_find_best_prompt(r, q, MaxTopK)

SpecScript == ScriptInit /\ [][ScriptNext]_vars

\* a turn of the loop on an input stream: once input() has raised EOFError
\* the stream has ended, and every later input() raises it again
cli_input_stream(in, encode_ok, encode_ok_gen, api_ok) ==
  /\ cli.input.kind = "EOFError" => in.kind = "EOFError"
  /\ cli_input(in, encode_ok, encode_ok_gen, api_ok)

StreamNext ==
  \/ \E e \in EncodeOutcomes : cli_start(e)
  \/ cli_list_prompts
  \/ \E e \in BOOLEAN, g \in BOOLEAN, a \in BOOLEAN : cli_query(e, g, a)
  \/ cli_interactive
  \/ \E in \in Inputs, e \in BOOLEAN, g \in BOOLEAN, a \in BOOLEAN :
       cli_input_stream(in, e, g, a)

\* the process is sequential and never waits for anything but input():
\* it takes its next step as long as one changes its state
SpecCliStream == CliInit /\ [][StreamNext]_vars /\ WF_vars(StreamNext)

(* ------------------------- notions for the claims ---------------------- *)

\* rows of self.prompt_embeddings, None counted as no rows
Rows(r) == IF prompt_embeddings[r].is_none THEN 0
                                           ELSE Len(prompt_embeddings[r].rows)

KeySet(d) == {d[i].name : i \in 1..Len(d)}

ResultNames(results) == {results[p][1] : p \in 1..Len(results)}

Returned(op) == last.op = op /\ last.outcome = "ok"

(* -------------------------------- claims ------------------------------- *)

\* C1: in every reachable state the embedding matrix has as many rows, and
\* prompt_names as many names, as prompt_library has entries.
C1_RowsEqualCatalog ==
  \A r \in Routers :
    /\ Rows(r) = Len(Library(r))
    /\ Len(prompt_names[r]) = Len(Library(r))

\* C2: after load_prompt_library(P) with P non-empty, the matrix has Len(P)
\* rows, prompt_names lists the keys of P, and row i embeds the description of
\* the entry named prompt_names[i].
C2_LoadAligned ==
  (last.op = "load_prompt_library" /\ last.prompts # <<>>) =>
    LET r == last.router
        P == last.prompts
    IN  /\ Rows(r) = Len(P)
        /\ prompt_names[r] = DictKeys(P)
        /\ \A i \in 1..Len(P) :
             /\ DictHas(P, prompt_names[r][i])
             /\ prompt_embeddings[r].rows[i]
                  = encode(DictGet(P, prompt_names[r][i]).description)

\* C2 witness: a two-entry library was loaded over a cache of another shape.
C2_Witness ==
  /\ last.op = "load_prompt_library"
  /\ Len(last.prompts) = 2
  /\ DictKeys(last.pre) # DictKeys(last.prompts)
  /\ last.pre # <<>>

\* C3: on a non-empty catalog find_best_prompt returns at most top_k results
\* (none for a top_k below zero) and never more than the catalog has entries.
C3_AtMostTopK ==
  Returned("find_best_prompt") =>
    /\ Len(last.results) <= (IF last.top_k > 0 THEN last.top_k ELSE 0)
    /\ Len(last.results) <= Len(Library(last.router))

C5_TiesFirstInserted ==
  Returned("find_best_prompt") =>
    LET res == last.results
        idx == last.top_indices
    IN  /\ \A p, q \in 1..Len(res) :
             (p < q /\ res[p][2] = res[q][2]) => idx[p] < idx[q]
        /\ (last.top_k = 1 /\ res # <<>>) =>
             \A i \in 1..Len(last.similarities) :
               last.similarities[i] = res[1][2] => idx[1] <= i

\* C6: whenever the catalog is empty find_best_prompt raises the "No prompts
\* loaded" ValueError and returns nothing.
C6_EmptyRaises ==
  (last.op = "find_best_prompt" /\ Library(last.router) = <<>>) =>
    /\ last.outcome = "ValueError"
    /\ last.results = <<>>

\* C6 witness: the query ran on a catalog emptied by a load, with the matrix
\* of the earlier catalog still cached.
C6_Witness ==
  /\ last.op = "find_best_prompt"
  /\ Library(last.router) = <<>>
  /\ ~prompt_embeddings[last.router].is_none

\* C7: with top_k at least the catalog size N, find_best_prompt returns N
\* results, one per catalog entry, in non-increasing order of score.
C7_AllReturned ==
  (/\ last.op = "find_best_prompt"
   /\ Library(last.router) # <<>>
   /\ last.top_k >= Len(Library(last.router))) =>
    /\ last.outcome = "ok"
    /\ Len(last.results) = Len(Library(last.router))
    /\ ResultNames(last.results) = KeySet(Library(last.router))
    /\ \A p \in 1..(Len(last.results) - 1) :
         last.results[p][2] >= last.results[p + 1][2]

\* C8: add_prompt with a name already in the catalog replaces that entry's
\* description and system prompt, leaves the size and the names of the
\* catalog as they were, and recomputes the embeddings: afterwards
\* get_prompt_details and find_best_prompt give the new system prompt, and
\* the entry is scored against the new description.
C8_Overwrite ==
  (last.op = "add_prompt" /\ DictHas(last.pre, last.entry[1].name)) =>
    LET r == last.router
        e == last.entry[1]
    IN  /\ last.outcome = "ok"
        /\ DictKeys(Library(r)) = DictKeys(last.pre)
        /\ Cardinality(KeySet(Library(r))) = Len(Library(r))
        /\ get_prompt_details_of(r, e.name)
             = Some([description |-> e.description,
                     system_prompt |-> e.system_prompt])
        /\ prompt_names[r] = DictKeys(Library(r))
        /\ \A i \in 1..Len(prompt_names[r]) :
             prompt_names[r][i] = e.name =>
               prompt_embeddings[r].rows[i] = encode(e.description)
        /\ \A q \in Texts, k \in TopKs :
             LET f == find_best_prompt_of(r, q, k)
             IN  /\ f.outcome = "ok"
                 /\ \A p \in 1..Len(f.results) :
                      f.results[p][1] = e.name =>
                        /\ f.results[p][3] = e.system_prompt
                        /\ f.results[p][2]
                             = dot(<<encode(e.description)>>, encode(q))[1]

\* C8 witness: an entry was overwritten with another description and another
\* system prompt, in a catalog of two.
C8_Witness ==
  /\ last.op = "add_prompt"
  /\ DictHas(last.pre, last.entry[1].name)
  /\ Len(last.pre) = 2
  /\ DictGet(last.pre, last.entry[1].name).system_prompt
       # last.entry[1].system_prompt
  /\ DictGet(last.pre, last.entry[1].name).description
       # last.entry[1].description

\* C9: after load_prompt_library(B) over an earlier catalog A the catalog is
\* B: for a name of A that B lacks, get_prompt_details is absent, list_prompts
\* omits it and find_best_prompt never returns it.
C9_ReloadReplaces ==
  last.op = "load_prompt_library" =>
    LET r == last.router
        B == last.prompts
    IN  /\ Library(r) = B
        /\ \A n \in KeySet(last.pre) \ KeySet(B) :
             /\ get_prompt_details_of(r, n) = None
             /\ \A pr \in list_prompts_of(r) : pr[1] # n
             /\ \A q \in Texts, k \in TopKs :
                  n \notin ResultNames(find_best_prompt_of(r, q, k).results)

\* C9 witness: a non-empty library was loaded over a catalog that had a name
\* the new one lacks.
C9_Witness ==
  /\ last.op = "load_prompt_library"
  /\ last.prompts # <<>>
  /\ KeySet(last.pre) \ KeySet(last.prompts) # {}

\* C10: add_prompt on one router changes neither the other router's
\* list_prompts, get_prompt_details and find_best_prompt results nor the
\* caller's library object.
C10_AddIsPrivate ==
  [][last'.op = "add_prompt" =>
       /\ heap'["PROMPT_LIBRARY"] = heap["PROMPT_LIBRARY"]
       /\ \A o \in Routers \ {last'.router} :
            /\ list_prompts_of(o)' = list_prompts_of(o)
            /\ \A n \in Names :
                 get_prompt_details_of(o, n)' = get_prompt_details_of(o, n)
            /\ \A q \in Texts, k \in TopKs :
                 find_best_prompt_of(o, q, k)' = find_best_prompt_of(o, q, k)]_vars

\* C17: get_prompt_details(name) never raises: it returns the whole entry
\* (description and system prompt) when the name is in the catalog and None
\* when it is not, whatever the catalog holds, the empty catalog included.
C17_DetailsOrNone ==
  last.op = "get_prompt_details" =>
    LET lib == Library(last.router)
        hit == {i \in 1..Len(lib) : lib[i].name = last.query}
    IN  /\ last.outcome = "ok"
        /\ hit = {} => last.value = None
        /\ \A i \in hit :
             last.value = Some([description   |-> lib[i].description,
                                system_prompt |-> lib[i].system_prompt])

\* C17 witness: a name was looked up in an empty catalog whose router still
\* caches the names of an earlier catalog.
C17_Witness ==
  /\ last.op = "get_prompt_details"
  /\ Library(last.router) = <<>>
  /\ prompt_names[last.router] # <<>>
  /\ last.value = None

\* C18: after any sequence of add_prompt and load_prompt_library calls,
\* list_prompts returns a mapping whose keys are exactly the names of the
\* catalog and whose value for a name is the description stored last for it:
\* the one of the add_prompt just made, the ones of the library just loaded.
C18_ListIsCatalog ==
  /\ last.op = "list_prompts" =>
       LET lib == Library(last.router)
       IN  /\ last.outcome = "ok"
           /\ {pr[1] : pr \in last.value} = KeySet(lib)
           /\ Cardinality(last.value) = Cardinality(KeySet(lib))
           /\ \A pr \in last.value : \A i \in 1..Len(lib) :
                lib[i].name = pr[1] => lib[i].description = pr[2]
  /\ last.op = "add_prompt" =>
       LET now == list_prompts_of(last.router)
           e   == last.entry[1]
       IN  /\ <<e.name, e.description>> \in now
           /\ {pr[1] : pr \in now} = KeySet(last.pre) \cup {e.name}
           /\ Cardinality(now) = Cardinality(KeySet(last.pre) \cup {e.name})
           /\ \A i \in 1..Len(last.pre) :
                last.pre[i].name # e.name =>
                  <<last.pre[i].name, last.pre[i].description>> \in now
  /\ last.op = "load_prompt_library" =>
       list_prompts_of(last.router)
         = {<<last.prompts[i].name, last.prompts[i].description>> :
              i \in 1..Len(last.prompts)}

\* C18 witness: list_prompts ran on the catalog of two in which "a" has
\* the description t2 and "b" the description t1.
C18_Witness ==
  /\ last.op = "list_prompts"
  /\ last.value = {<<"b", "t1">>, <<"a", "t2">>}

(* ------------------------ claims on generate_response ------------------ *)

GenCall == last.op = "generate_response"

\* C11: when the chat-completion call fails, generate_response raises
\* nothing: it returns a dict with "error", the matched prompt name, the
\* similarity score and the system prompt that was sent, and no "response".
C11_ApiFailureIsResult ==
  (GenCall /\ last.value.sent # None /\ ~last.value.api_ok) =>
    LET v == last.value
        f == find_best_prompt_of(last.router, last.query, 1)
    IN  /\ last.outcome = "ok"
        /\ v.result.keys = {"error", "matched_prompt", "similarity_score",
                            "system_prompt_used"}
        /\ v.result.error # None
        /\ v.result.response = None
        /\ v.result.system_prompt_used = v.sent[1].system
        /\ v.ranked =>
             /\ v.result.matched_prompt = f.results[1][1]
             /\ v.result.similarity_score = Some(f.results[1][2])
             /\ v.result.system_prompt_used = f.results[1][3]
        /\ ~v.ranked =>
             /\ v.result.matched_prompt = "custom"
             /\ v.result.similarity_score = None

\* C11 witness: the completion failed after the second of two entries had
\* been matched.
C11_Witness ==
  /\ GenCall
  /\ ~last.value.api_ok
  /\ last.value.ranked
  /\ Len(Library(last.router)) = 2
  /\ last.value.result.matched_prompt = Library(last.router)[2].name
  /\ "error" \in last.value.result.keys

\* C12: when the embedder fails while generate_response selects the best
\* prompt, generate_response catches the failure and returns a dict with
\* "error" instead of raising.
C12_EmbedderFailureIsResult ==
  (/\ GenCall
   /\ ~Truthy(last.value.custom_system_prompt)
   /\ last.value.use_best_prompt
   /\ ~no_prompts_loaded(last.router)
   /\ ~last.value.encode_ok) =>
    /\ last.outcome = "ok"
    /\ "error" \in last.value.result.keys

\* C19: without a custom prompt, generate_response sends the system prompt,
\* and reports the name and the score, of the first element of
\* find_best_prompt(query, top_k = 1) in the same catalog state, and raises
\* what that call raises.
C19_UsesBestMatch ==
  (/\ GenCall
   /\ ~Truthy(last.value.custom_system_prompt)
   /\ last.value.use_best_prompt
   /\ last.value.encode_ok) =>
    LET v == last.value
        f == find_best_prompt_of(last.router, last.query, 1)
    IN  /\ last.outcome = f.outcome
        /\ f.outcome = "ok" =>
             /\ Len(f.results) = 1
             /\ v.sent = Some([system |-> f.results[1][3],
                               user   |-> last.query])
             /\ v.result.matched_prompt = f.results[1][1]
             /\ v.result.similarity_score = Some(f.results[1][2])
             /\ v.result.system_prompt_used = f.results[1][3]
             /\ v.api_ok => v.result.response # None

\* C19 witness: the completion answered under the system prompt of the
\* second of two entries, which scored best.
C19_Witness ==
  /\ GenCall
  /\ last.value.ranked
  /\ last.value.api_ok
  /\ Len(Library(last.router)) = 2
  /\ last.value.result.matched_prompt = Library(last.router)[2].name
  /\ last.value.sent[1].system = Library(last.router)[2].system_prompt
  /\ Library(last.router)[1].system_prompt
       # Library(last.router)[2].system_prompt

\* C20: given a custom system prompt (a string that is not empty, the code
\* testing its truth value), generate_response ranks nothing, so that it
\* succeeds on an empty catalog and with a failing embedder, sends the custom
\* prompt, and reports matched_prompt "custom" and similarity_score None.
C20_CustomOverrides ==
  (GenCall /\ Truthy(last.value.custom_system_prompt)) =>
    LET v == last.value
    IN  /\ last.outcome = "ok"
        /\ ~v.ranked
        /\ v.sent = Some([system |-> v.custom_system_prompt[1],
                          user   |-> last.query])
        /\ v.result.matched_prompt = "custom"
        /\ v.result.similarity_score = None
        /\ v.result.system_prompt_used = v.custom_system_prompt[1]
        /\ v.api_ok => (v.result.response # None
                        /\ "error" \notin v.result.keys)

\* C20 witness: a custom prompt was answered on an empty catalog, with
\* use_best_prompt left True.
C20_Witness ==
  /\ GenCall
  /\ Truthy(last.value.custom_system_prompt)
  /\ last.value.use_best_prompt
  /\ last.value.api_ok
  /\ Library(last.router) = <<>>
  /\ "response" \in last.value.result.keys

(* ----------------------------- claims on cli.py ------------------------ *)

\* C13: with no key in the argument and none in the environment the
\* constructor raises its ValueError at once; cli.py then exits with code 1,
\* no router with a catalog exists and no query has been read or processed.
C13_NoKeyNoRouter ==
  /\ \A a \in EnvKeys, e \in EnvKeys :
       (~Truthy(a) /\ ~Truthy(e)) => init_of(a, e) = "ValueError"
  /\ (cli.pc \notin {"off", "start"} /\ ~Truthy(cli.env_key)) =>
       /\ cli.pc = "exited"
       /\ cli.exit_code = Some(1)
       /\ cli.event = "config_error"
       /\ cli.router = "none"
       /\ cli.mode = ""
       /\ cli.input.kind = ""
       /\ prompt_library["r1"] = OwnObj("r1")
       /\ Library("r1") = <<>>
       /\ prompt_names["r1"] = <<>>
       /\ prompt_embeddings["r1"].is_none

\* C13 witness: the run had a query on its command line and an empty
\* OPENAI_API_KEY, and has exited.
C13_Witness ==
  /\ cli.pc = "exited"
  /\ cli.env_key = Some("")
  /\ Truthy(cli.args.query)
  /\ cli.exit_code = Some(1)

\* C14: ranking needs the embedder alone: without any API key a router is
\* constructed and loaded, ready for find_best_prompt.
C14_RouterWithoutKey ==
  (cli.pc \notin {"off", "start"} /\ ~Truthy(cli.env_key)) =>
    /\ cli.router = "r1"
    /\ Library("r1") # <<>>

C16_LoopSurvivesErrors ==
  cli.mode = "interactive" =>
    LET in    == cli.input
        query == strip(in.text)
        asked == /\ in.kind = "line"
                 /\ query # ""
                 /\ lower(query) \notin QuitWords
        fails == \/ ~cli.faults.encode_ok
                 \/ /\ ~cli.args.no_response
                    /\ ~cli.faults.encode_ok_gen \/ ~cli.faults.api_ok
    IN  /\ (asked /\ fails) =>
             /\ cli.pc = "input"
             /\ cli.exit_code = None
             /\ cli.event \in {"query_error", "generation_error"}
        /\ cli.pc = "exited" =>
             \/ in.kind = "KeyboardInterrupt"
             \/ in.kind = "line" /\ lower(query) \in QuitWords
        /\ cli.pc \in {"input", "exited"}

\* C16 witness: the embedder failed on a query of the session, and the loop
\* waits for the next line.
C16_Witness ==
  /\ cli.mode = "interactive"
  /\ cli.input = [kind |-> "line", text |-> " t2 "]
  /\ ~cli.faults.encode_ok
  /\ cli.event = "query_error"
  /\ cli.pc = "input"

(* --------------------------- claims, continued ------------------------- *)

ReadOps ==
  {"find_best_prompt", "generate_response", "list_prompts",
   "get_prompt_details"}

\* C21: find_best_prompt, generate_response, list_prompts and
\* get_prompt_details leave prompt_library (the reference and the dict it
\* refers to), prompt_names and prompt_embeddings unchanged, whether they
\* return or raise.
C21_ReadsChangeNothing ==
  [][last'.op \in ReadOps =>
       UNCHANGED <<heap, prompt_library, prompt_names, prompt_embeddings>>]_vars

\* C21 witness: generate_response raised the embedder's error on a loaded
\* catalog.
C21_Witness ==
  /\ last.op = "generate_response"
  /\ last.outcome = "EmbedderError"
  /\ Library(last.router) # <<>>

Descriptions(lib) == [i \in 1..Len(lib) |-> lib[i].description]

MutatingOps == {"add_prompt", "load_prompt_library"}

C26_FailedMutationRollsBack ==
  [][(last'.op \in MutatingOps /\ last'.outcome = "EmbedderError") =>
       UNCHANGED <<heap, prompt_library, prompt_names, prompt_embeddings>>]_vars

\* inner product of two vectors of the embedder's dimension
Inner(u, v) == u[1] * v[1] + u[2] * v[2]

C28_ResultsAreCatalogEntries ==
  Returned("find_best_prompt") =>
    LET lib == Library(last.router)
        res == last.results
    IN  /\ \A p \in 1..Len(res) :
             \E i \in 1..Len(lib) :
               /\ lib[i].name = res[p][1]
               /\ lib[i].system_prompt = res[p][3]
        /\ \A p \in 1..Len(res), q \in 1..Len(res) :
             p # q => res[p][1] # res[q][1]

\* C28 witness: a result was returned by a router whose cached names are no
\* longer the keys of the catalog it reads, another router having added to
\* the shared dict.
C28_Witness ==
  /\ Returned("find_best_prompt")
  /\ Len(last.results) = 1
  /\ Len(Library(last.router)) = 2
  /\ prompt_names[last.router] # DictKeys(Library(last.router))

\* C27: the interactive loop of cli.py terminates on every input stream:
\* once the user has entered quit, exit or q, has interrupted, or the input
\* stream has ended, the loop stops.
C27_LoopTerminates ==
  (/\ cli.mode = "interactive"
   /\ \/ cli.input.kind \in {"KeyboardInterrupt", "EOFError"}
      \/ cli.input.kind = "line" /\ lower(strip(cli.input.text)) \in QuitWords)
    ~> (cli.pc = "exited")

(* ---------------------- claims on youtube-summarizer ------------------- *)

PrimaryOk(f) == f.api_ok /\ f.fetch_ok /\ f.format_ok

FallbackOk(f) ==
  /\ f.api_ok /\ f.list_ok /\ f.listed # <<>>
  /\ f.first_fetch_ok /\ f.first_format_ok

Calls(seq) == {seq[i] : i \in 1..Len(seq)}

\* C24: process_video never raises. When the extraction of the video id, the
\* retrieval of the transcript or the summary fails, it returns success
\* False with the error text and the url it was given, and no later step has
\* run; when all succeed it returns success True with the video id, the
\* summary and the summary type that was asked for.
C24_ProcessVideoNeverRaises ==
  last.op = "process_video" =>
    LET v   == last.value
        res == v.result
        idOk == last.query \in {"https://www.youtube.com/watch?v=dQw4w9WgXcQ",
                                "https://www.youtube.com/watch?v=dQw4w9WgXcQ&t=3s",
                                "https://youtu.be/dQw4w9WgXcQ", "dQw4w9WgXcQ"}
        trOk == PrimaryOk(v.faults) \/ FallbackOk(v.faults)
        last_step == v.steps[Len(v.steps)]
    IN  /\ last.outcome = "ok"
        /\ (idOk /\ trOk /\ v.summary_ok) =>
             /\ res.success
             /\ {"success", "video_id", "summary", "summary_type"}
                  \subseteq res.keys
             /\ res.video_id = "dQw4w9WgXcQ"
             /\ res.summary # None
             /\ res.summary_type = v.summary_type
             /\ last_step = "summary"
        /\ ~(idOk /\ trOk /\ v.summary_ok) =>
             /\ ~res.success
             /\ res.keys = {"success", "error", "url"}
             /\ res.url = last.query
             /\ res.error # ""
             /\ last_step = (IF ~idOk THEN "extract_video_id"
                             ELSE IF ~trOk THEN "get_transcript"
                             ELSE "summary")
             /\ ~idOk => res.error = "Invalid YouTube URL or video ID"
             /\ (idOk /\ ~trOk) => res.error = "Could not retrieve transcript"

\* C24 witness: the transcript could not be retrieved for a good url, and
\* no summary was asked for.
C24_Witness ==
  /\ last.op = "process_video"
  /\ last.query = "https://youtu.be/dQw4w9WgXcQ"
  /\ last.value.summary_ok
  /\ ~last.value.result.success
  /\ last.value.result.error = "Could not retrieve transcript"
  /\ "summary" \notin Calls(last.value.steps)

\* C25: get_transcript tries the fetch in the preferred languages first;
\* only when that attempt fails does it list the transcripts and fetch the
\* first one; it raises "Could not retrieve transcript" exactly when both
\* the first attempt and the fallback fail, and otherwise returns the
\* formatted text of the transcript it fetched.
C25_TranscriptFallback ==
  last.op = "get_transcript" =>
    LET v == last.value
        f == v.faults
    IN  /\ v.calls[1] = "YouTubeTranscriptApi"
        /\ f.api_ok => v.calls[2] = "fetch"
        /\ "list" \in Calls(v.calls) <=> (f.api_ok /\ ~PrimaryOk(f))
        /\ \A i \in 1..Len(v.calls), j \in 1..Len(v.calls) :
             (v.calls[i] = "fetch" /\ v.calls[j] \in {"list", "first.fetch"})
               => i < j
        /\ last.outcome = "Exception" <=> (~PrimaryOk(f) /\ ~FallbackOk(f))
        /\ last.outcome = "Exception" =>
             v.error = "Could not retrieve transcript"
        /\ last.outcome # "Exception" =>
             /\ last.outcome = "ok"
             /\ v.text = IF PrimaryOk(f) THEN <<"text", "en">>
                                         ELSE <<"text", f.listed[1]>>

\* C25 witness: the preferred fetch failed and the first of two listed
\* transcripts was returned.
C25_Witness ==
  /\ last.op = "get_transcript"
  /\ ~last.value.faults.fetch_ok
  /\ last.value.faults.listed = <<"fr", "de">>
  /\ last.outcome = "ok"
  /\ last.value.text = <<"text", "fr">>

(* ------------------------ claims on email-assistant -------------------- *)

Ranking(f) == [p \in 1..Len(f.results) |-> <<f.results[p][1], f.results[p][2]>>]

\* both routers have made every call of the sequence
ScriptDone == \A r \in Routers : last.value.pos[r] = Len(last.value.script)

\* C29: ranking is deterministic. Two routers taken through the same
\* sequence of add_prompt and load_prompt_library calls return the same
\* result list (names, scores, order) from find_best_prompt for the same
\* query and top_k, and a query repeated on one router with no mutation in
\* between returns the same list.
C29_Deterministic ==
  /\ ScriptDone =>
       \A q \in Texts, k \in TopKs :
         LET f1 == find_best_prompt_of("r1", q, k)
             f2 == find_best_prompt_of("r2", q, k)
         IN  f1.outcome = f2.outcome /\ Ranking(f1) = Ranking(f2)
  /\ last.op = "find_best_prompt" =>
       LET again == find_best_prompt_of(last.router, last.query, last.top_k)
       IN  again.outcome = last.outcome /\ again.results = last.results

====
